---- MODULE Spec2Model ----
(***************************************************************************)
(* Model of the gmail_mcp tool layer: token extraction and list parsing    *)
(* (dependencies.py) and the tool handlers (tools/management.py,           *)
(* tools/advanced.py).                                                     *)
(*                                                                         *)
(* Strings whose characters matter (headers, comma-separated lists,        *)
(* subjects) are sequences of one-character strings.  Identifiers that are *)
(* only passed through (message ids, bodies, label ids) are plain strings. *)
(* An Optional[T] is a sequence of length 0 (None) or 1 (the value).       *)
(***************************************************************************)
EXTENDS Integers, Sequences, FiniteSets, TLC

VARIABLES
    \* one handler invocation
    pc,            \* "idle", "await" (suspended at a service call), "done"
    handler,       \* name of the running tool handler
    ctx,           \* the MCP context of the request
    args,          \* the handler's parameters
    gmail_service, \* the service client built for this invocation
    locals,        \* handler locals that live across an await
    calls,         \* GmailService method calls issued, in order
    outcome,       \* how the invocation ended
    logs,          \* logger.error events
    \* parse_comma_separated_list applied to one input
    value, items, parse_pc,
    \* get_access_token applied to one context
    token_ctx, token_result, token_pc,
    \* concurrent invocations: the one whose frame the handler variables hold,
    \* and the frames of the invocations suspended meanwhile
    cur, frames

vars == <<pc, handler, ctx, args, gmail_service, locals, calls, outcome,
          logs, value, items, parse_pc, token_ctx, token_result, token_pc,
          cur, frames>>

handler_vars == <<pc, handler, ctx, args, gmail_service, locals, calls,
                  outcome, logs>>
parse_vars == <<value, items, parse_pc>>
token_vars == <<token_ctx, token_result, token_pc>>
task_vars == <<cur, frames>>

----------------------------------------------------------------------------
\* Bounds

\* invocations running concurrently
NumInvocations == 2

\* longest enumerated comma-separated input
MaxLen == 4
\* most chunks concatenated into an Authorization header
MaxChunks == 3

----------------------------------------------------------------------------
\* Optional values

None == <<>>
Some(x) == <<x>>

\* Variant of Truthy that only tests for None, so "" counts as a value.
Truthy_not_none(o) == o # None

\* Python truthiness of an Optional[str] held as a plain string: None and ""
\* are falsy
Truthy(o) == o # None /\ o[1] # ""

----------------------------------------------------------------------------
\* str methods used by the code, on sequences of characters

\* characters str.strip() removes
isspace(c) == c \in {" ", "\t", "\n", "\r"}

startswith(s, prefix) ==
    Len(s) >= Len(prefix) /\ SubSeq(s, 1, Len(prefix)) = prefix

RECURSIVE lstrip(_)
lstrip(s) ==
    IF s # <<>> /\ isspace(Head(s)) THEN lstrip(Tail(s)) ELSE s

RECURSIVE rstrip(_)
rstrip(s) ==
    IF s # <<>> /\ isspace(s[Len(s)]) THEN rstrip(SubSeq(s, 1, Len(s) - 1)) ELSE s

strip(s) == rstrip(lstrip(s))

\* s.split(sep) for a one-character separator: always at least one segment
RECURSIVE split(_, _)
split(s, sep) ==
    IF \A i \in 1..Len(s) : s[i] # sep
    THEN <<s>>
    ELSE LET i == CHOOSE k \in 1..Len(s) :
                      s[k] = sep /\ \A j \in 1..(k - 1) : s[j] # sep
         IN  <<SubSeq(s, 1, i - 1)>> \o split(SubSeq(s, i + 1, Len(s)), sep)

\* s.replace(old, new) for non-empty old: every non-overlapping occurrence,
\* scanning left to right
RECURSIVE replace(_, _, _)
replace(s, old, new) ==
    IF s = <<>> THEN <<>>
    ELSE IF startswith(s, old)
         THEN new \o replace(SubSeq(s, Len(old) + 1, Len(s)), old, new)
         ELSE <<Head(s)>> \o replace(Tail(s), old, new)

\* sep.join(xs)
RECURSIVE join(_, _)
join(sep, xs) ==
    IF xs = <<>> THEN <<>>
    ELSE IF Len(xs) = 1 THEN xs[1]
         ELSE xs[1] \o sep \o join(sep, Tail(xs))

\* an f-string: its fixed text and the value formatted into it
Fmt(template, arg) == [fmt |-> template, arg |-> arg]

----------------------------------------------------------------------------
\* dependencies.py

BearerPrefix == <<"B", "e", "a", "r", "e", "r", " ">>

HTTPException(status_code, detail) ==
    [kind |-> "raised", status_code |-> status_code, detail |-> detail]

Returned(v) == [kind |-> "returned", value |-> v]

\* a context: ctx itself may be None, its request_context may be None, and
\* the request may or may not carry an Authorization header
Context(present, request_context, auth_header) ==
    [present |-> present, request_context |-> request_context,
     Authorization |-> auth_header]

\* Variant of get_access_token that takes any non-empty header as a token.
get_access_token_any_scheme(c) ==
    IF ~c.present \/ ~c.request_context
    THEN HTTPException(401, "No request context available")
    ELSE LET auth_header == c.Authorization
         IN  IF auth_header = None \/ auth_header[1] = <<>>
             THEN HTTPException(401, "No valid access token provided")
             ELSE Returned(replace(auth_header[1], BearerPrefix, <<>>))

get_access_token(c) ==
    IF ~c.present \/ ~c.request_context
    THEN HTTPException(401, "No request context available")
    ELSE LET auth_header == c.Authorization
         IN  IF auth_header = None \/ auth_header[1] = <<>>
                \/ ~startswith(auth_header[1], BearerPrefix)
             THEN HTTPException(401, "No valid access token provided")
             ELSE Returned(replace(auth_header[1], BearerPrefix, <<>>))

\* TokenInfo(access_token, email="", scope="") wrapped in a GmailService;
\* construction makes no call
get_gmail_service(access_token) ==
    [token_info |-> [access_token |-> access_token, email |-> "", scope |-> ""]]

\* Variant of parse_comma_separated_list that keeps the empty segments.
parse_comma_separated_list_unfiltered(v) ==
    IF v = None \/ strip(v[1]) = <<>>
    THEN None
    ELSE LET parts == split(v[1], ",")
         IN  Some([i \in 1..Len(parts) |-> strip(parts[i])])

parse_comma_separated_list(v) ==
    IF v = None \/ strip(v[1]) = <<>>
    THEN None
    ELSE LET parts == split(v[1], ",")
             stripped == [i \in 1..Len(parts) |-> strip(parts[i])]
         IN  Some(SelectSeq(stripped, LAMBDA item : item # <<>>))

----------------------------------------------------------------------------
\* Inputs of the handlers

\* characters of the Authorization headers and comma-separated lists
BasicX == <<"B", "a", "s", "i", "c", " ", "x">>

Contexts ==
    { Context(FALSE, FALSE, None),
      Context(TRUE, FALSE, None),
      Context(TRUE, TRUE, None),
      Context(TRUE, TRUE, Some(<<>>)),
      Context(TRUE, TRUE, Some(BasicX)),
      Context(TRUE, TRUE, Some(BearerPrefix \o <<"x">>)) }

Bodies == {None, Some(""), Some("hello")}
MessageIds == {"m1"}
ListInputs == { <<>>, <<"a">>, <<"a", ",", " ", ",", "b">> }
OptListInputs == {None, Some(<<"c">>)}
Errors == {"API error"}

----------------------------------------------------------------------------
\* Steps shared by the handlers.  The JSON text a handler returns is kept as
\* the object it encodes.

ServiceCall(method, arguments) ==
    [method |-> method, args |-> arguments, result |-> "pending", response |-> None]

\* the call the handler is suspended at has completed: it returned v, or
\* raised v
Completed(r, v) ==
    [calls EXCEPT ![Len(calls)].result = r, ![Len(calls)].response = v]

\* entering a handler: get_access_token, then get_gmail_service
Begin(h, c, a) ==
    /\ pc = "idle"
    /\ handler' = h
    /\ ctx' = c
    /\ args' = a
    /\ UNCHANGED <<parse_vars, token_vars, task_vars>>

\* get_access_token raised: the exception leaves the handler before the try
Unauthorized(exc) ==
    /\ pc' = "done"
    /\ outcome' = exc
    /\ gmail_service' = None
    /\ UNCHANGED <<locals, calls, logs>>

\* resuming handler h after its awaited call completed
Resume(h) ==
    /\ pc = "await"
    /\ handler = h
    /\ UNCHANGED <<handler, ctx, args, gmail_service, parse_vars, token_vars,
                   task_vars>>

\* return json.dumps(payload)
Return(cs, payload) ==
    /\ pc' = "done"
    /\ outcome' = Returned(payload)
    /\ calls' = cs
    /\ UNCHANGED <<locals, logs>>

\* await gmail_service.<method>(...): the call goes out on the client held by
\* the handler's gmail_service local
Await(cs, call, loc) ==
    /\ pc' = "await"
    /\ calls' = Append(cs, [method |-> call.method, args |-> call.args,
                            result |-> call.result, response |-> call.response,
                            client |-> gmail_service'[1]])
    /\ locals' = loc
    /\ UNCHANGED <<outcome, logs>>

\* Variant of Catch that leaves without logging.
Catch_silent(cs, log, out) ==
    /\ pc' = "done"
    /\ outcome' = out
    /\ calls' = cs
    /\ UNCHANGED <<locals, logs>>

\* except Exception as e: logger.error(...), then leave with `out`
Catch(cs, log, out) ==
    /\ logs' = Append(logs, log)
    /\ pc' = "done"
    /\ outcome' = out
    /\ calls' = cs
    /\ UNCHANGED locals

ErrorEnvelope(e) == [error |-> e, success |-> FALSE]

\* ', '.join(xs) if xs else <fallback>
JoinedOr(xs, fallback) ==
    IF xs # None /\ xs[1] # <<>> THEN join(<<",", " ">>, xs[1]) ELSE fallback

----------------------------------------------------------------------------
\* tools/management.py

BodyRequired == "Either body_text or body_html must be provided"

gmail_send_email(c, to, subject, body_text, body_html, cc, bcc, attachments, request_ok) ==
    /\ Begin("gmail_send_email", c,
             [to |-> to, subject |-> subject, body_text |-> body_text,
              body_html |-> body_html, cc |-> cc, bcc |-> bcc,
              attachments |-> attachments])
    /\ LET access_token == get_access_token(c)
       IN  IF access_token.kind = "raised" THEN Unauthorized(access_token)
           ELSE
           /\ gmail_service' = Some(get_gmail_service(access_token.value))
           /\ IF ~Truthy(body_text) /\ ~Truthy(body_html)
              THEN Return(calls, [error |-> BodyRequired])
              ELSE LET to_list == parse_comma_separated_list(Some(to))
                       cc_list == parse_comma_separated_list(cc)
                       bcc_list == parse_comma_separated_list(bcc)
                       attachments_list == parse_comma_separated_list(attachments)
                       request == [to |-> to_list, subject |-> subject,
                                   body_text |-> body_text, body_html |-> body_html,
                                   cc |-> cc_list, bcc |-> bcc_list,
                                   attachments |-> attachments_list]
                   IN  IF ~request_ok
                       THEN Catch(calls, Fmt("Error sending email: {}", "invalid request"),
                                  HTTPException(500, Fmt("Failed to send email: {}",
                                                         "invalid request")))
                       ELSE Await(calls, ServiceCall("send_message", <<request>>),
                                  [to_list |-> to_list])

gmail_send_email_returns(message_id) ==
    /\ Resume("gmail_send_email")
    /\ Return(Completed("returned", message_id),
              [success |-> TRUE, message_id |-> message_id,
               message |-> Fmt("Email sent successfully to {}",
                               JoinedOr(locals.to_list, "recipients"))])

\* Variant of the except branch that answers like the sibling handlers.
gmail_send_email_raises_envelope(e) ==
    /\ Resume("gmail_send_email")
    /\ Catch(Completed("raised", e), Fmt("Error sending email: {}", e),
             Returned(ErrorEnvelope(e)))

gmail_send_email_raises(e) ==
    /\ Resume("gmail_send_email")
    /\ Catch(Completed("raised", e), Fmt("Error sending email: {}", e),
             HTTPException(500, Fmt("Failed to send email: {}", e)))

\* original messages get_message may return
Hello == <<"H", "e", "l", "l", "o">>
Subjects ==
    { None, Some(<<>>), Some(Hello),
      Some(<<"R", "e", ":", " ">> \o Hello),
      Some(<<"R", "e", ":">> \o Hello),
      Some(<<"R", "e">>) }
Attachments == { <<>>, <<[attachment_id |-> "att1"]>>,
                 <<[attachment_id |-> "att1"], [attachment_id |-> "att2"]>> }
Messages ==
    [sender : {None, Some(""), Some("alice@x.com")},
     recipient : {None, Some("bob@x.com")},
     subject : Subjects,
     thread_id : {"t1", "t2"},
     attachments : Attachments]

\* Variant of reply_subject that always puts "Re: " in front.
reply_subject_always(original_subject) ==
    LET subject == IF original_subject = None \/ original_subject[1] = <<>>
                   THEN <<>> ELSE original_subject[1]
    IN  <<"R", "e", ":", " ">> \o subject

\* subject = original_message.subject or ""; "Re: " is put in front unless
\* the subject starts with "Re:"
reply_subject(original_subject) ==
    LET subject == IF original_subject = None \/ original_subject[1] = <<>>
                   THEN <<>> ELSE original_subject[1]
    IN  IF ~startswith(subject, <<"R", "e", ":">>)
        THEN <<"R", "e", ":", " ">> \o subject
        ELSE subject

gmail_reply_to_email(c, message_id, body_text, body_html, reply_all) ==
    /\ Begin("gmail_reply_to_email", c,
             [message_id |-> message_id, body_text |-> body_text,
              body_html |-> body_html, reply_all |-> reply_all])
    /\ LET access_token == get_access_token(c)
       IN  IF access_token.kind = "raised" THEN Unauthorized(access_token)
           ELSE
           /\ gmail_service' = Some(get_gmail_service(access_token.value))
           /\ IF ~Truthy(body_text) /\ ~Truthy(body_html)
              THEN Return(calls, [error |-> BodyRequired])
              ELSE Await(calls, ServiceCall("get_message", <<message_id>>),
                         [step |-> "get_message"])

\* Variant of the reply step in which reply_all also addresses the original
\* recipient.
gmail_reply_to_email_original_reply_all(original_message, request_ok) ==
    /\ Resume("gmail_reply_to_email")
    /\ locals.step = "get_message"
    /\ LET sender == IF Truthy(original_message.sender)
                     THEN <<original_message.sender[1]>> ELSE <<>>
           to_addresses == IF args.reply_all /\ Truthy(original_message.recipient)
                           THEN sender \o <<original_message.recipient[1]>>
                           ELSE sender
           request == [to |-> to_addresses,
                       subject |-> reply_subject(original_message.subject),
                       body_text |-> args.body_text, body_html |-> args.body_html,
                       thread_id |-> original_message.thread_id,
                       in_reply_to |-> args.message_id]
       IN  IF ~request_ok
           THEN Catch(Completed("returned", original_message),
                      Fmt("Error in reply_to_email: {}", "invalid request"),
                      Returned(ErrorEnvelope("invalid request")))
           ELSE Await(Completed("returned", original_message), ServiceCall("send_message", <<request>>),
                      [step |-> "send_message", original_message |-> original_message])

\* get_message returned: build the reply and send it
gmail_reply_to_email_original(original_message, request_ok) ==
    /\ Resume("gmail_reply_to_email")
    /\ locals.step = "get_message"
    /\ LET to_addresses == IF Truthy(original_message.sender)
                           THEN <<original_message.sender[1]>> ELSE <<>>
           subject == reply_subject(original_message.subject)
           request == [to |-> to_addresses, subject |-> subject,
                       body_text |-> args.body_text, body_html |-> args.body_html,
                       thread_id |-> original_message.thread_id,
                       in_reply_to |-> args.message_id]
       IN  IF ~request_ok
           THEN Catch(Completed("returned", original_message),
                      Fmt("Error in reply_to_email: {}", "invalid request"),
                      Returned(ErrorEnvelope("invalid request")))
           ELSE Await(Completed("returned", original_message), ServiceCall("send_message", <<request>>),
                      [step |-> "send_message", original_message |-> original_message])

gmail_reply_to_email_returns(reply_message_id) ==
    /\ Resume("gmail_reply_to_email")
    /\ locals.step = "send_message"
    /\ Return(Completed("returned", reply_message_id),
              [success |-> TRUE, reply_message_id |-> reply_message_id,
               original_message_id |-> args.message_id,
               message |-> "Reply sent successfully"])

\* Variant of gmail_reply_to_email_raises that, when get_message failed, goes
\* on to send the reply without the original's data.
gmail_reply_to_email_raises_continue(e) ==
    /\ Resume("gmail_reply_to_email")
    /\ IF locals.step = "get_message"
       THEN Await(Completed("raised", e),
                  ServiceCall("send_message",
                              <<[to |-> <<>>, subject |-> <<"R", "e", ":", " ">>,
                                 body_text |-> args.body_text,
                                 body_html |-> args.body_html,
                                 thread_id |-> None, in_reply_to |-> args.message_id]>>),
                  [step |-> "send_message"])
       ELSE Catch(Completed("raised", e), Fmt("Error in reply_to_email: {}", e),
                  Returned(ErrorEnvelope(e)))

gmail_reply_to_email_raises(e) ==
    /\ Resume("gmail_reply_to_email")
    /\ Catch(Completed("raised", e), Fmt("Error in reply_to_email: {}", e),
             Returned(ErrorEnvelope(e)))

\* entering a handler whose get_access_token may raise; `step` is the try body
\* up to its first await or return
Invoke(h, c, a, step) ==
    /\ Begin(h, c, a)
    /\ LET access_token == get_access_token(c)
       IN  IF access_token.kind = "raised" THEN Unauthorized(access_token)
           ELSE /\ gmail_service' = Some(get_gmail_service(access_token.value))
                /\ step

\* ModifyLabelsRequest(add_label_ids=..., remove_label_ids=...)
ModifyLabelsRequest(add_label_ids, remove_label_ids) ==
    [add_label_ids |-> add_label_ids, remove_label_ids |-> remove_label_ids]

UpdatedMessages == { [label_ids |-> <<>>], [label_ids |-> <<"INBOX">>] }

gmail_mark_as_read(c, message_id) ==
    Invoke("gmail_mark_as_read", c, [message_id |-> message_id],
           Await(calls, ServiceCall("modify_message_labels",
                                    <<message_id, ModifyLabelsRequest(None, Some(<<"UNREAD">>))>>),
                 [step |-> "modify_message_labels"]))

gmail_mark_as_read_returns(updated_message) ==
    /\ Resume("gmail_mark_as_read")
    /\ Return(Completed("returned", updated_message),
              [success |-> TRUE, message_id |-> args.message_id,
               message |-> "Email marked as read"])

gmail_mark_as_read_raises(e) ==
    /\ Resume("gmail_mark_as_read")
    /\ Catch(Completed("raised", e), Fmt("Error in mark_as_read: {}", e),
             Returned(ErrorEnvelope(e)))

gmail_mark_as_unread(c, message_id) ==
    Invoke("gmail_mark_as_unread", c, [message_id |-> message_id],
           Await(calls, ServiceCall("modify_message_labels",
                                    <<message_id, ModifyLabelsRequest(Some(<<"UNREAD">>), None)>>),
                 [step |-> "modify_message_labels"]))

gmail_mark_as_unread_returns(updated_message) ==
    /\ Resume("gmail_mark_as_unread")
    /\ Return(Completed("returned", updated_message),
              [success |-> TRUE, message_id |-> args.message_id,
               message |-> "Email marked as unread"])

gmail_mark_as_unread_raises(e) ==
    /\ Resume("gmail_mark_as_unread")
    /\ Catch(Completed("raised", e), Fmt("Error in mark_as_unread: {}", e),
             Returned(ErrorEnvelope(e)))

gmail_archive_email(c, message_id) ==
    Invoke("gmail_archive_email", c, [message_id |-> message_id],
           Await(calls, ServiceCall("modify_message_labels",
                                    <<message_id, ModifyLabelsRequest(None, Some(<<"INBOX">>))>>),
                 [step |-> "modify_message_labels"]))

gmail_archive_email_returns(updated_message) ==
    /\ Resume("gmail_archive_email")
    /\ Return(Completed("returned", updated_message),
              [success |-> TRUE, message_id |-> args.message_id,
               message |-> "Email archived successfully"])

gmail_archive_email_raises(e) ==
    /\ Resume("gmail_archive_email")
    /\ Catch(Completed("raised", e), Fmt("Error in archive_email: {}", e),
             Returned(ErrorEnvelope(e)))

gmail_unarchive_email(c, message_id) ==
    Invoke("gmail_unarchive_email", c, [message_id |-> message_id],
           Await(calls, ServiceCall("modify_message_labels",
                                    <<message_id, ModifyLabelsRequest(Some(<<"INBOX">>), None)>>),
                 [step |-> "modify_message_labels"]))

gmail_unarchive_email_returns(updated_message) ==
    /\ Resume("gmail_unarchive_email")
    /\ Return(Completed("returned", updated_message),
              [success |-> TRUE, message_id |-> args.message_id,
               message |-> "Email unarchived successfully"])

gmail_unarchive_email_raises(e) ==
    /\ Resume("gmail_unarchive_email")
    /\ Catch(Completed("raised", e), Fmt("Error in unarchive_email: {}", e),
             Returned(ErrorEnvelope(e)))

gmail_delete_email(c, message_id) ==
    Invoke("gmail_delete_email", c, [message_id |-> message_id],
           Await(calls, ServiceCall("delete_message", <<message_id>>),
                 [step |-> "delete_message"]))

\* Variant of gmail_delete_email_returns that reports a false result as an
\* error envelope.
gmail_delete_email_returns_error(success) ==
    /\ Resume("gmail_delete_email")
    /\ IF success
       THEN Return(Completed("returned", success),
                   [success |-> TRUE, message_id |-> args.message_id,
                    message |-> "Email deleted successfully"])
       ELSE Return(Completed("returned", success),
                   ErrorEnvelope("Failed to delete email"))

gmail_delete_email_returns(success) ==
    /\ Resume("gmail_delete_email")
    /\ IF success
       THEN Return(Completed("returned", success),
                   [success |-> TRUE, message_id |-> args.message_id,
                    message |-> "Email deleted successfully"])
       ELSE Return(Completed("returned", success),
                   [success |-> FALSE, message_id |-> args.message_id,
                    message |-> "Failed to delete email"])

gmail_delete_email_raises(e) ==
    /\ Resume("gmail_delete_email")
    /\ Catch(Completed("raised", e), Fmt("Error in delete_email: {}", e),
             Returned(ErrorEnvelope(e)))

gmail_add_label(c, message_id, label_ids, request_ok) ==
    Invoke("gmail_add_label", c, [message_id |-> message_id, label_ids |-> label_ids],
           LET label_ids_list == parse_comma_separated_list(Some(label_ids))
               request == ModifyLabelsRequest(label_ids_list, None)
           IN  IF ~request_ok
               THEN Catch(calls, Fmt("Error in add_label: {}", "invalid request"),
                          Returned(ErrorEnvelope("invalid request")))
               ELSE Await(calls, ServiceCall("modify_message_labels",
                                             <<message_id, request>>),
                          [label_ids_list |-> label_ids_list]))

gmail_add_label_returns(updated_message) ==
    /\ Resume("gmail_add_label")
    /\ Return(Completed("returned", updated_message),
              [success |-> TRUE, message_id |-> args.message_id,
               added_labels |-> locals.label_ids_list,
               current_labels |-> updated_message.label_ids,
               message |-> Fmt("Labels {} added successfully",
                               JoinedOr(locals.label_ids_list, "none"))])

gmail_add_label_raises(e) ==
    /\ Resume("gmail_add_label")
    /\ Catch(Completed("raised", e), Fmt("Error in add_label: {}", e),
             Returned(ErrorEnvelope(e)))

gmail_remove_label(c, message_id, label_ids, request_ok) ==
    Invoke("gmail_remove_label", c,
           [message_id |-> message_id, label_ids |-> label_ids],
           LET label_ids_list == parse_comma_separated_list(Some(label_ids))
               request == ModifyLabelsRequest(None, label_ids_list)
           IN  IF ~request_ok
               THEN Catch(calls, Fmt("Error in remove_label: {}", "invalid request"),
                          Returned(ErrorEnvelope("invalid request")))
               ELSE Await(calls, ServiceCall("modify_message_labels",
                                             <<message_id, request>>),
                          [label_ids_list |-> label_ids_list]))

gmail_remove_label_returns(updated_message) ==
    /\ Resume("gmail_remove_label")
    /\ Return(Completed("returned", updated_message),
              [success |-> TRUE, message_id |-> args.message_id,
               removed_labels |-> locals.label_ids_list,
               current_labels |-> updated_message.label_ids,
               message |-> Fmt("Labels {} removed successfully",
                               JoinedOr(locals.label_ids_list, "none"))])

gmail_remove_label_raises(e) ==
    /\ Resume("gmail_remove_label")
    /\ Catch(Completed("raised", e), Fmt("Error in remove_label: {}", e),
             Returned(ErrorEnvelope(e)))

gmail_create_label(c, name, message_list_visibility, label_list_visibility, request_ok) ==
    Invoke("gmail_create_label", c,
           [name |-> name, message_list_visibility |-> message_list_visibility,
            label_list_visibility |-> label_list_visibility],
           LET request == [name |-> name,
                           message_list_visibility |-> message_list_visibility,
                           label_list_visibility |-> label_list_visibility]
           IN  IF ~request_ok
               THEN Catch(calls, Fmt("Error in create_label: {}", "invalid request"),
                          Returned(ErrorEnvelope("invalid request")))
               ELSE Await(calls, ServiceCall("create_label", <<request>>),
                          [step |-> "create_label"]))

gmail_create_label_returns(label) ==
    /\ Resume("gmail_create_label")
    /\ Return(Completed("returned", label),
              [success |-> TRUE, label |-> label,
               message |-> Fmt("Label '{}' created successfully", args.name)])

gmail_create_label_raises(e) ==
    /\ Resume("gmail_create_label")
    /\ Catch(Completed("raised", e), Fmt("Error in create_label: {}", e),
             Returned(ErrorEnvelope(e)))

----------------------------------------------------------------------------
\* tools/advanced.py

gmail_forward_email(c, message_id, to, cc, bcc, additional_message, request_ok) ==
    Invoke("gmail_forward_email", c,
           [message_id |-> message_id, to |-> to, cc |-> cc, bcc |-> bcc,
            additional_message |-> additional_message],
           LET to_list == parse_comma_separated_list(Some(to))
               cc_list == parse_comma_separated_list(cc)
               bcc_list == parse_comma_separated_list(bcc)
               request == [to |-> to_list, cc |-> cc_list, bcc |-> bcc_list,
                           additional_message |-> additional_message]
           IN  IF ~request_ok
               THEN Catch(calls, Fmt("Error in forward_email: {}", "invalid request"),
                          Returned(ErrorEnvelope("invalid request")))
               ELSE Await(calls, ServiceCall("forward_message", <<message_id, request>>),
                          [to_list |-> to_list]))

gmail_forward_email_returns(forwarded_message_id) ==
    /\ Resume("gmail_forward_email")
    /\ Return(Completed("returned", forwarded_message_id),
              [success |-> TRUE, forwarded_message_id |-> forwarded_message_id,
               original_message_id |-> args.message_id,
               message |-> Fmt("Email forwarded successfully to {}",
                               JoinedOr(locals.to_list, "recipients"))])

gmail_forward_email_raises(e) ==
    /\ Resume("gmail_forward_email")
    /\ Catch(Completed("raised", e), Fmt("Error in forward_email: {}", e),
             Returned(ErrorEnvelope(e)))

FolderLabels == {"INBOX", "TRASH", "Label_1"}

\* Variant of gmail_move_to_folder that removes INBOX whenever remove_inbox
\* is set, whatever the target.
gmail_move_to_folder_always_remove(c, message_id, folder_label_id, remove_inbox, request_ok) ==
    Invoke("gmail_move_to_folder", c,
           [message_id |-> message_id, folder_label_id |-> folder_label_id,
            remove_inbox |-> remove_inbox],
           LET request == ModifyLabelsRequest(
                              Some(<<folder_label_id>>),
                              IF remove_inbox THEN Some(<<"INBOX">>) ELSE None)
           IN  IF ~request_ok
               THEN Catch(calls, Fmt("Error in move_to_folder: {}", "invalid request"),
                          Returned(ErrorEnvelope("invalid request")))
               ELSE Await(calls, ServiceCall("modify_message_labels",
                                             <<message_id, request>>),
                          [step |-> "modify_message_labels"]))

gmail_move_to_folder(c, message_id, folder_label_id, remove_inbox, request_ok) ==
    Invoke("gmail_move_to_folder", c,
           [message_id |-> message_id, folder_label_id |-> folder_label_id,
            remove_inbox |-> remove_inbox],
           LET add_labels == <<folder_label_id>>
               remove_labels == IF remove_inbox /\ folder_label_id \notin {"INBOX"}
                                THEN <<"INBOX">> ELSE <<>>
               request == ModifyLabelsRequest(
                              Some(add_labels),
                              IF remove_labels # <<>> THEN Some(remove_labels) ELSE None)
           IN  IF ~request_ok
               THEN Catch(calls, Fmt("Error in move_to_folder: {}", "invalid request"),
                          Returned(ErrorEnvelope("invalid request")))
               ELSE Await(calls, ServiceCall("modify_message_labels",
                                             <<message_id, request>>),
                          [step |-> "modify_message_labels"]))

gmail_move_to_folder_returns(updated_message) ==
    /\ Resume("gmail_move_to_folder")
    /\ Return(Completed("returned", updated_message),
              [success |-> TRUE, message_id |-> args.message_id,
               moved_to |-> args.folder_label_id,
               current_labels |-> updated_message.label_ids,
               message |-> Fmt("Email moved to {}", args.folder_label_id)])

gmail_move_to_folder_raises(e) ==
    /\ Resume("gmail_move_to_folder")
    /\ Catch(Completed("raised", e), Fmt("Error in move_to_folder: {}", e),
             Returned(ErrorEnvelope(e)))

\* list responses: threads or drafts, a page token and a size estimate
ListResponses(field) ==
    { [items |-> xs, next_page_token |-> None, result_size_estimate |-> Len(xs)] :
        xs \in { <<>>, <<[id |-> field]>> } }

gmail_get_threads(c, max_results, label_ids, query, request_ok) ==
    Invoke("gmail_get_threads", c,
           [max_results |-> max_results, label_ids |-> label_ids, query |-> query,
            include_spam_trash |-> FALSE, page_token |-> None, after |-> None,
            before |-> None],
           LET label_ids_list == parse_comma_separated_list(label_ids)
               request == [max_results |-> max_results, label_ids |-> label_ids_list,
                           q |-> query, include_spam_trash |-> FALSE,
                           page_token |-> None, after |-> None, before |-> None]
           IN  IF ~request_ok
               THEN Catch(calls, Fmt("Error in get_threads: {}", "invalid request"),
                          Returned([error |-> "invalid request"]))
               ELSE Await(calls, ServiceCall("list_threads", <<request>>),
                          [step |-> "list_threads"]))

gmail_get_threads_returns(response) ==
    /\ Resume("gmail_get_threads")
    /\ Return(Completed("returned", response),
              [threads |-> response.items,
               next_page_token |-> response.next_page_token,
               result_size_estimate |-> response.result_size_estimate,
               count |-> Len(response.items)])

gmail_get_threads_raises(e) ==
    /\ Resume("gmail_get_threads")
    /\ Catch(Completed("raised", e), Fmt("Error in get_threads: {}", e),
             Returned([error |-> e]))

Formats == {"compact", "full"}

gmail_get_thread_by_id(c, thread_id, format) ==
    Invoke("gmail_get_thread_by_id", c, [thread_id |-> thread_id, format |-> format],
           Await(calls, ServiceCall("get_thread", <<thread_id, format>>),
                 [step |-> "get_thread"]))

gmail_get_thread_by_id_returns(thread) ==
    /\ Resume("gmail_get_thread_by_id")
    /\ Return(Completed("returned", thread),
              [success |-> TRUE, thread |-> thread,
               message_count |-> Len(thread.messages)])

gmail_get_thread_by_id_raises(e) ==
    /\ Resume("gmail_get_thread_by_id")
    /\ Catch(Completed("raised", e), Fmt("Error in get_thread_by_id: {}", e),
             Returned(ErrorEnvelope(e)))

gmail_create_draft(c, to, subject, body_text, body_html, cc, bcc, thread_id, in_reply_to, request_ok) ==
    Invoke("gmail_create_draft", c,
           [to |-> to, subject |-> subject, body_text |-> body_text,
            body_html |-> body_html, cc |-> cc, bcc |-> bcc,
            thread_id |-> thread_id, in_reply_to |-> in_reply_to],
           IF ~Truthy(body_text) /\ ~Truthy(body_html)
           THEN Return(calls, [error |-> BodyRequired])
           ELSE LET to_list == parse_comma_separated_list(Some(to))
                    cc_list == parse_comma_separated_list(cc)
                    bcc_list == parse_comma_separated_list(bcc)
                    request == [to |-> to_list, subject |-> subject,
                                body_text |-> body_text, body_html |-> body_html,
                                cc |-> cc_list, bcc |-> bcc_list,
                                thread_id |-> thread_id, in_reply_to |-> in_reply_to]
                IN  IF ~request_ok
                    THEN Catch(calls, Fmt("Error in create_draft: {}", "invalid request"),
                               Returned(ErrorEnvelope("invalid request")))
                    ELSE Await(calls, ServiceCall("create_draft", <<request>>),
                               [to_list |-> to_list]))

gmail_create_draft_returns(draft_id) ==
    /\ Resume("gmail_create_draft")
    /\ Return(Completed("returned", draft_id),
              [success |-> TRUE, draft_id |-> draft_id,
               message |-> Fmt("Draft created successfully for {}",
                               JoinedOr(locals.to_list, "recipients"))])

gmail_create_draft_raises(e) ==
    /\ Resume("gmail_create_draft")
    /\ Catch(Completed("raised", e), Fmt("Error in create_draft: {}", e),
             Returned(ErrorEnvelope(e)))

gmail_get_drafts(c, max_results, format, query, request_ok) ==
    Invoke("gmail_get_drafts", c,
           [max_results |-> max_results, page_token |-> None, format |-> format,
            query |-> query, after |-> None, before |-> None],
           LET request == [max_results |-> max_results, page_token |-> None,
                           message_format |-> format, q |-> query,
                           after |-> None, before |-> None]
           IN  IF ~request_ok
               THEN Catch(calls, Fmt("Error in get_drafts: {}", "invalid request"),
                          Returned([error |-> "invalid request"]))
               ELSE Await(calls, ServiceCall("list_drafts", <<request>>),
                          [step |-> "list_drafts"]))

gmail_get_drafts_returns(response) ==
    /\ Resume("gmail_get_drafts")
    /\ Return(Completed("returned", response),
              [drafts |-> response.items,
               next_page_token |-> response.next_page_token,
               result_size_estimate |-> response.result_size_estimate,
               count |-> Len(response.items)])

gmail_get_drafts_raises(e) ==
    /\ Resume("gmail_get_drafts")
    /\ Catch(Completed("raised", e), Fmt("Error in get_drafts: {}", e),
             Returned([error |-> e]))

gmail_get_draft_by_id(c, draft_id, format) ==
    Invoke("gmail_get_draft_by_id", c, [draft_id |-> draft_id, format |-> format],
           Await(calls, ServiceCall("get_draft", <<draft_id, format>>),
                 [step |-> "get_draft"]))

gmail_get_draft_by_id_returns(draft) ==
    /\ Resume("gmail_get_draft_by_id")
    /\ Return(Completed("returned", draft),
              [success |-> TRUE, draft |-> draft,
               message |-> Fmt("Draft {} retrieved successfully", args.draft_id)])

gmail_get_draft_by_id_raises(e) ==
    /\ Resume("gmail_get_draft_by_id")
    /\ Catch(Completed("raised", e), Fmt("Error in get_draft_by_id: {}", e),
             Returned(ErrorEnvelope(e)))

gmail_send_draft(c, draft_id) ==
    Invoke("gmail_send_draft", c, [draft_id |-> draft_id],
           Await(calls, ServiceCall("send_draft", <<draft_id>>),
                 [step |-> "send_draft"]))

gmail_send_draft_returns(message_id) ==
    /\ Resume("gmail_send_draft")
    /\ Return(Completed("returned", message_id),
              [success |-> TRUE, message_id |-> message_id,
               draft_id |-> args.draft_id, message |-> "Draft sent successfully"])

gmail_send_draft_raises(e) ==
    /\ Resume("gmail_send_draft")
    /\ Catch(Completed("raised", e), Fmt("Error in send_draft: {}", e),
             Returned(ErrorEnvelope(e)))

AttachmentIds == {None, Some(""), Some("att1")}

\* Variant of gmail_get_attachments that only tests the id for None, so an
\* empty id is looked up as an attachment.
gmail_get_attachments_not_none(c, message_id, attachment_id) ==
    Invoke("gmail_get_attachments", c,
           [message_id |-> message_id, attachment_id |-> attachment_id],
           IF attachment_id # None
           THEN Await(calls, ServiceCall("get_attachment",
                                         <<message_id, attachment_id[1]>>),
                      [step |-> "get_attachment"])
           ELSE Await(calls, ServiceCall("get_message", <<message_id>>),
                      [step |-> "get_message"]))

gmail_get_attachments(c, message_id, attachment_id) ==
    Invoke("gmail_get_attachments", c,
           [message_id |-> message_id, attachment_id |-> attachment_id],
           IF Truthy(attachment_id)
           THEN Await(calls, ServiceCall("get_attachment",
                                         <<message_id, attachment_id[1]>>),
                      [step |-> "get_attachment"])
           ELSE Await(calls, ServiceCall("get_message", <<message_id>>),
                      [step |-> "get_message"]))

\* Variant of the single-attachment branch that goes on to fetch the message.
gmail_get_attachments_attachment_then_message(attachment) ==
    /\ Resume("gmail_get_attachments")
    /\ locals.step = "get_attachment"
    /\ Await(Completed("returned", attachment), ServiceCall("get_message", <<args.message_id>>),
             [step |-> "get_message"])

\* get_attachment returned
gmail_get_attachments_attachment(attachment) ==
    /\ Resume("gmail_get_attachments")
    /\ locals.step = "get_attachment"
    /\ Return(Completed("returned", attachment),
              [success |-> TRUE, attachment |-> attachment,
               message |-> Fmt("Attachment {} downloaded successfully",
                               args.attachment_id[1])])

\* get_message returned
gmail_get_attachments_message(message) ==
    /\ Resume("gmail_get_attachments")
    /\ locals.step = "get_message"
    /\ Return(Completed("returned", message),
              [success |-> TRUE, message_id |-> args.message_id,
               attachments |-> message.attachments,
               count |-> Len(message.attachments),
               message |-> Fmt("Found {} attachments", Len(message.attachments))])

gmail_get_attachments_raises(e) ==
    /\ Resume("gmail_get_attachments")
    /\ Catch(Completed("raised", e), Fmt("Error in get_attachments: {}", e),
             Returned(ErrorEnvelope(e)))

----------------------------------------------------------------------------
\* Handler invocations: one request, from the call of the tool to its result

NoContext == Context(FALSE, FALSE, None)

InitHandler ==
    /\ pc = "idle"
    /\ handler = "none"
    /\ ctx = NoContext
    /\ args = <<>>
    /\ gmail_service = None
    /\ locals = <<>>
    /\ calls = <<>>
    /\ outcome = [kind |-> "none"]
    /\ logs = <<>>

ParseOff == value = None /\ items = None /\ parse_pc = "off"
TokenOff == token_ctx = NoContext /\ token_result = [kind |-> "none"] /\ token_pc = "off"

TaskOff == cur = 1 /\ frames = <<>>

Init == InitHandler /\ ParseOff /\ TokenOff /\ TaskOff

\* values the service client may return
SentIds == {"id1"}
Labels == { [id |-> "Label_1", name |-> "work"] }
Threads == { [id |-> "t1", messages |-> <<>>], [id |-> "t1", messages |-> <<"m1">>] }
Drafts == { [id |-> "d1"] }
AttachmentData == { [attachment_id |-> "att1", data |-> "AAAA"] }

Next ==
    \/ \E c \in Contexts, to \in ListInputs, body_text \in Bodies, body_html \in Bodies,
          cc \in OptListInputs, bcc \in OptListInputs, attachments \in OptListInputs,
          request_ok \in BOOLEAN :
          gmail_send_email(c, to, "subject", body_text, body_html, cc, bcc,
                           attachments, request_ok)
    \/ \E message_id \in SentIds : gmail_send_email_returns(message_id)
    \/ \E e \in Errors : gmail_send_email_raises(e)
    \/ \E c \in Contexts, message_id \in MessageIds, body_text \in Bodies,
          body_html \in Bodies, reply_all \in BOOLEAN :
          gmail_reply_to_email(c, message_id, body_text, body_html, reply_all)
    \/ \E original_message \in Messages, request_ok \in BOOLEAN :
          gmail_reply_to_email_original(original_message, request_ok)
    \/ \E reply_message_id \in SentIds : gmail_reply_to_email_returns(reply_message_id)
    \/ \E e \in Errors : gmail_reply_to_email_raises(e)
    \/ \E c \in Contexts, message_id \in MessageIds : gmail_mark_as_read(c, message_id)
    \/ \E m \in UpdatedMessages : gmail_mark_as_read_returns(m)
    \/ \E e \in Errors : gmail_mark_as_read_raises(e)
    \/ \E c \in Contexts, message_id \in MessageIds : gmail_mark_as_unread(c, message_id)
    \/ \E m \in UpdatedMessages : gmail_mark_as_unread_returns(m)
    \/ \E e \in Errors : gmail_mark_as_unread_raises(e)
    \/ \E c \in Contexts, message_id \in MessageIds : gmail_archive_email(c, message_id)
    \/ \E m \in UpdatedMessages : gmail_archive_email_returns(m)
    \/ \E e \in Errors : gmail_archive_email_raises(e)
    \/ \E c \in Contexts, message_id \in MessageIds : gmail_unarchive_email(c, message_id)
    \/ \E m \in UpdatedMessages : gmail_unarchive_email_returns(m)
    \/ \E e \in Errors : gmail_unarchive_email_raises(e)
    \/ \E c \in Contexts, message_id \in MessageIds : gmail_delete_email(c, message_id)
    \/ \E success \in BOOLEAN : gmail_delete_email_returns(success)
    \/ \E e \in Errors : gmail_delete_email_raises(e)
    \/ \E c \in Contexts, message_id \in MessageIds, label_ids \in ListInputs,
          request_ok \in BOOLEAN :
          gmail_add_label(c, message_id, label_ids, request_ok)
    \/ \E m \in UpdatedMessages : gmail_add_label_returns(m)
    \/ \E e \in Errors : gmail_add_label_raises(e)
    \/ \E c \in Contexts, message_id \in MessageIds, label_ids \in ListInputs,
          request_ok \in BOOLEAN :
          gmail_remove_label(c, message_id, label_ids, request_ok)
    \/ \E m \in UpdatedMessages : gmail_remove_label_returns(m)
    \/ \E e \in Errors : gmail_remove_label_raises(e)
    \/ \E c \in Contexts, request_ok \in BOOLEAN :
          gmail_create_label(c, "work", "show", "labelShow", request_ok)
    \/ \E label \in Labels : gmail_create_label_returns(label)
    \/ \E e \in Errors : gmail_create_label_raises(e)
    \/ \E c \in Contexts, message_id \in MessageIds, to \in ListInputs,
          cc \in OptListInputs, bcc \in OptListInputs,
          additional_message \in {None, Some("fyi")}, request_ok \in BOOLEAN :
          gmail_forward_email(c, message_id, to, cc, bcc, additional_message,
                              request_ok)
    \/ \E forwarded_message_id \in SentIds :
          gmail_forward_email_returns(forwarded_message_id)
    \/ \E e \in Errors : gmail_forward_email_raises(e)
    \/ \E c \in Contexts, message_id \in MessageIds, folder_label_id \in FolderLabels,
          remove_inbox \in BOOLEAN, request_ok \in BOOLEAN :
          gmail_move_to_folder(c, message_id, folder_label_id, remove_inbox,
                               request_ok)
    \/ \E m \in UpdatedMessages : gmail_move_to_folder_returns(m)
    \/ \E e \in Errors : gmail_move_to_folder_raises(e)
    \/ \E c \in Contexts, label_ids \in OptListInputs, query \in {None, Some("q")},
          request_ok \in BOOLEAN :
          gmail_get_threads(c, 10, label_ids, query, request_ok)
    \/ \E response \in ListResponses("t1") : gmail_get_threads_returns(response)
    \/ \E e \in Errors : gmail_get_threads_raises(e)
    \/ \E c \in Contexts, format \in Formats : gmail_get_thread_by_id(c, "t1", format)
    \/ \E thread \in Threads : gmail_get_thread_by_id_returns(thread)
    \/ \E e \in Errors : gmail_get_thread_by_id_raises(e)
    \/ \E c \in Contexts, to \in ListInputs, body_text \in Bodies, body_html \in Bodies,
          cc \in OptListInputs, bcc \in OptListInputs,
          thread_id \in {None, Some("t1")}, request_ok \in BOOLEAN :
          gmail_create_draft(c, to, "subject", body_text, body_html, cc, bcc,
                             thread_id, None, request_ok)
    \/ \E draft_id \in {"d1"} : gmail_create_draft_returns(draft_id)
    \/ \E e \in Errors : gmail_create_draft_raises(e)
    \/ \E c \in Contexts, format \in Formats, query \in {None, Some("q")},
          request_ok \in BOOLEAN :
          gmail_get_drafts(c, 10, format, query, request_ok)
    \/ \E response \in ListResponses("d1") : gmail_get_drafts_returns(response)
    \/ \E e \in Errors : gmail_get_drafts_raises(e)
    \/ \E c \in Contexts, format \in Formats : gmail_get_draft_by_id(c, "d1", format)
    \/ \E draft \in Drafts : gmail_get_draft_by_id_returns(draft)
    \/ \E e \in Errors : gmail_get_draft_by_id_raises(e)
    \/ \E c \in Contexts : gmail_send_draft(c, "d1")
    \/ \E message_id \in SentIds : gmail_send_draft_returns(message_id)
    \/ \E e \in Errors : gmail_send_draft_raises(e)
    \/ \E c \in Contexts, message_id \in MessageIds, attachment_id \in AttachmentIds :
          gmail_get_attachments(c, message_id, attachment_id)
    \/ \E attachment \in AttachmentData : gmail_get_attachments_attachment(attachment)
    \/ \E message \in Messages : gmail_get_attachments_message(message)
    \/ \E e \in Errors : gmail_get_attachments_raises(e)

Spec == Init /\ [][Next]_vars

----------------------------------------------------------------------------
\* parse_comma_separated_list on its own: every input up to MaxLen characters
\* over a small alphabet, and the documented example

Alphabet == {"a", "b", " ", ","}
ExampleInput ==
    <<"a", "@", "x", ".", "c", "o", "m", ",", " ", ",",
      "b", "@", "x", ".", "c", "o", "m">>
ParseInputs ==
    {None} \cup {Some(ExampleInput)}
           \cup { Some(s) : s \in UNION { [1..k -> Alphabet] : k \in 0..MaxLen } }

InitParse ==
    /\ InitHandler /\ TokenOff /\ TaskOff
    /\ value \in ParseInputs
    /\ items = None
    /\ parse_pc = "ready"

Parse ==
    /\ parse_pc = "ready"
    /\ items' = parse_comma_separated_list(value)
    /\ parse_pc' = "done"
    /\ UNCHANGED <<value, handler_vars, token_vars, task_vars>>

NextParse == Parse

SpecParse == InitParse /\ [][NextParse]_vars

----------------------------------------------------------------------------
\* get_access_token on its own: headers made of up to MaxChunks chunks

Chunks ==
    { BearerPrefix, <<"B", "e", "a", "r", "e", "r">>, <<"b", "e", "a", "r", "e", "r", " ">>,
      <<"x">>, <<" ">> }

RECURSIVE Concat(_)
Concat(xs) == IF xs = <<>> THEN <<>> ELSE Head(xs) \o Concat(Tail(xs))

Headers == { Concat(cs) : cs \in UNION { [1..k -> Chunks] : k \in 0..MaxChunks } }

TokenContexts ==
    { Context(FALSE, FALSE, None), Context(TRUE, FALSE, None), Context(TRUE, TRUE, None) }
    \cup { Context(TRUE, TRUE, Some(h)) : h \in Headers }

InitToken ==
    /\ InitHandler /\ ParseOff /\ TaskOff
    /\ token_ctx \in TokenContexts
    /\ token_result = [kind |-> "none"]
    /\ token_pc = "ready"

ExtractToken ==
    /\ token_pc = "ready"
    /\ token_result' = get_access_token(token_ctx)
    /\ token_pc' = "done"
    /\ UNCHANGED <<token_ctx, handler_vars, parse_vars, task_vars>>

NextToken == ExtractToken

SpecToken == InitToken /\ [][NextToken]_vars

----------------------------------------------------------------------------
\* Concurrent invocations.  Each invocation is a coroutine; its ctx,
\* access_token, gmail_service and the other names of the handler are locals
\* of its own frame.  The event loop runs one coroutine at a time and may pass
\* to another whenever the running one is suspended at an await, has
\* finished or has not started.

Invocations == 1..NumInvocations

\* the running invocation's frame
LiveFrame ==
    [pc |-> pc, handler |-> handler, ctx |-> ctx, args |-> args,
     gmail_service |-> gmail_service, locals |-> locals, calls |-> calls,
     outcome |-> outcome, logs |-> logs]

IdleFrame ==
    [pc |-> "idle", handler |-> "none", ctx |-> NoContext, args |-> <<>>,
     gmail_service |-> None, locals |-> <<>>, calls |-> <<>>,
     outcome |-> [kind |-> "none"], logs |-> <<>>]

\* placeholder in frames for the invocation that is running
Running == [pc |-> "running"]

\* Variant of Switch for a client kept in one module-level variable instead
\* of a handler local: it is not part of the frame.
Switch_shared_client(i) ==
    /\ i # cur
    /\ frames' = [frames EXCEPT ![cur] = LiveFrame, ![i] = Running]
    /\ cur' = i
    /\ pc' = frames[i].pc
    /\ handler' = frames[i].handler
    /\ ctx' = frames[i].ctx
    /\ args' = frames[i].args
    /\ locals' = frames[i].locals
    /\ calls' = frames[i].calls
    /\ outcome' = frames[i].outcome
    /\ logs' = frames[i].logs
    /\ UNCHANGED <<gmail_service, parse_vars, token_vars>>

\* the event loop passes from the running invocation to invocation i
Switch(i) ==
    /\ i # cur
    /\ frames' = [frames EXCEPT ![cur] = LiveFrame, ![i] = Running]
    /\ cur' = i
    /\ pc' = frames[i].pc
    /\ handler' = frames[i].handler
    /\ ctx' = frames[i].ctx
    /\ args' = frames[i].args
    /\ gmail_service' = frames[i].gmail_service
    /\ locals' = frames[i].locals
    /\ calls' = frames[i].calls
    /\ outcome' = frames[i].outcome
    /\ logs' = frames[i].logs
    /\ UNCHANGED <<parse_vars, token_vars>>

TaskContexts ==
    { Context(TRUE, TRUE, Some(BasicX)),
      Context(TRUE, TRUE, Some(BearerPrefix \o <<"x">>)),
      Context(TRUE, TRUE, Some(BearerPrefix \o <<"y">>)) }

TaskMessages ==
    { [sender |-> Some("alice@x.com"), recipient |-> None, subject |-> Some(Hello),
       thread_id |-> "t1", attachments |-> <<>>],
      [sender |-> None, recipient |-> Some("bob@x.com"), subject |-> None,
       thread_id |-> "t2", attachments |-> <<>>] }

TaskSentIds == {"id1", "id2"}

InitTasks ==
    /\ InitHandler /\ ParseOff /\ TokenOff
    /\ cur = 1
    /\ frames = [i \in Invocations |-> IF i = 1 THEN Running ELSE IdleFrame]

NextTasks ==
    \/ \E c \in TaskContexts :
          gmail_reply_to_email(c, "m1", Some("hello"), None, FALSE)
    \/ \E original_message \in TaskMessages :
          gmail_reply_to_email_original(original_message, TRUE)
    \/ \E reply_message_id \in TaskSentIds :
          gmail_reply_to_email_returns(reply_message_id)
    \/ \E e \in Errors : gmail_reply_to_email_raises(e)
    \/ \E c \in TaskContexts :
          gmail_forward_email(c, "m1", <<"a">>, None, None, None, TRUE)
    \/ \E forwarded_message_id \in TaskSentIds :
          gmail_forward_email_returns(forwarded_message_id)
    \/ \E e \in Errors : gmail_forward_email_raises(e)
    \/ \E i \in Invocations : Switch(i)

SpecTasks == InitTasks /\ [][NextTasks]_vars

----------------------------------------------------------------------------
\* Properties

\* the request carries no usable bearer token
Unauthenticated(c) ==
    \/ ~c.present
    \/ ~c.request_context
    \/ c.Authorization = None
    \/ Len(c.Authorization[1]) < 7
    \/ SubSeq(c.Authorization[1], 1, 7) # <<"B", "e", "a", "r", "e", "r", " ">>

\* a body parameter that is absent or empty
BodyMissing(b) == b = None \/ b = Some("")

BodyHandlers == {"gmail_send_email", "gmail_reply_to_email", "gmail_create_draft"}

\* some GmailService call of this invocation raised
CallRaised == \E i \in 1..Len(calls) : calls[i].result = "raised"

\* the invocation returned a payload with field f
ReturnedWith(f) == outcome.kind = "returned" /\ f \in DOMAIN outcome.value

\* C1: a request without context or without an Authorization header that
\* starts with "Bearer " ends, in every handler, in a 401 fault, and no
\* GmailService method is called during it.
C1_UnauthorizedRejected ==
    (pc # "idle" /\ Unauthenticated(ctx)) =>
        /\ pc = "done"
        /\ outcome.kind = "raised"
        /\ outcome.status_code = 401
        /\ calls = <<>>

\* C1 witness: send-email without a bearer header and without any body is
\* rejected with 401.
C1_Witness ==
    /\ pc = "done"
    /\ handler = "gmail_send_email"
    /\ ctx.present /\ ctx.request_context /\ ctx.Authorization = Some(BasicX)
    /\ BodyMissing(args.body_text) /\ BodyMissing(args.body_html)
    /\ outcome.kind = "raised" /\ outcome.status_code = 401
    /\ calls = <<>>

\* C2: send, reply and create-draft, on an authorized request with neither
\* body_text nor body_html, return a payload with an `error` field and call
\* no GmailService method.
C2_MissingBodyReturnsError ==
    ( /\ pc # "idle"
      /\ handler \in BodyHandlers
      /\ ~Unauthenticated(ctx)
      /\ BodyMissing(args.body_text) /\ BodyMissing(args.body_html) ) =>
        /\ pc = "done"
        /\ ReturnedWith("error")
        /\ calls = <<>>

\* C2 witness: a reply whose body_text is "" and whose body_html is absent.
C2_Witness ==
    /\ pc = "done"
    /\ handler = "gmail_reply_to_email"
    /\ ~Unauthenticated(ctx)
    /\ args.body_text = Some("") /\ args.body_html = None
    /\ ReturnedWith("error")
    /\ calls = <<>>

\* C3: in every handler but gmail_send_email, a raising GmailService call
\* makes the handler return an object with an `error` string and
\* `success: false`.
C3_UpstreamFailureEnvelope ==
    (pc = "done" /\ handler # "gmail_send_email" /\ CallRaised) =>
        /\ ReturnedWith("error")
        /\ "success" \in DOMAIN outcome.value
        /\ outcome.value.success = FALSE

\* C4: in gmail_send_email every exception after authorization and the body
\* check becomes a raised fault with status 500; the only failure returned as
\* a value is the missing-body validation failure.
C4_SendEmailFaults ==
    (pc = "done" /\ handler = "gmail_send_email") =>
        /\ (logs # <<>> \/ CallRaised) =>
               outcome.kind = "raised" /\ outcome.status_code = 500
        /\ ReturnedWith("error") =>
               /\ BodyMissing(args.body_text) /\ BodyMissing(args.body_html)
               /\ calls = <<>> /\ logs = <<>>
        /\ (outcome.kind = "returned" /\ "error" \notin DOMAIN outcome.value) =>
               /\ outcome.value.success = TRUE
               /\ Len(calls) = 1 /\ calls[1].result = "returned"

\* C4 witness: send_message raised and the invocation ended in a 500 fault.
C4_Witness ==
    /\ pc = "done"
    /\ handler = "gmail_send_email"
    /\ CallRaised
    /\ outcome.kind = "raised" /\ outcome.status_code = 500

\* C5: every value a handler returns is either a success envelope with a
\* boolean `success` and a `message`, or a failure envelope with `error` and
\* `success: false`; none lacks `success`.
C5_ResultEnvelope ==
    outcome.kind = "returned" =>
        /\ "success" \in DOMAIN outcome.value
        /\ outcome.value.success \in BOOLEAN
        /\ \/ "error" \in DOMAIN outcome.value /\ outcome.value.success = FALSE
           \/ "error" \notin DOMAIN outcome.value /\ "message" \in DOMAIN outcome.value

\* the invocation passed authorization and validation, no call failed, and it
\* returned its result
Succeeded == pc = "done" /\ outcome.kind = "returned" /\ "error" \notin DOMAIN outcome.value

\* C6 as stated: every invocation that passes authorization and validation and
\* sees no service failure has issued exactly one GmailService call.
C6_ExactlyOneCall == Succeeded => Len(calls) = 1

\* C6 amended: such an invocation has issued exactly one GmailService call,
\* except gmail_reply_to_email, which has issued exactly two: get_message,
\* then send_message.  No handler ever has more calls than that.
C6_OneCallExceptReply ==
    /\ Succeeded =>
          IF handler = "gmail_reply_to_email"
          THEN /\ Len(calls) = 2
               /\ calls[1].method = "get_message"
               /\ calls[2].method = "send_message"
          ELSE Len(calls) = 1
    /\ Len(calls) <= IF handler = "gmail_reply_to_email" THEN 2 ELSE 1

\* C6 witness: a reply that succeeded after its two calls.
C6_Witness ==
    /\ Succeeded
    /\ handler = "gmail_reply_to_email"
    /\ Len(calls) = 2
    /\ \A i \in 1..2 : calls[i].result = "returned"

\* Positions of a comma-separated input, for C7: a segment starts after
\* position p, where p is 0 or the position of a comma, and ends before the
\* next comma or the end of the input.
WhiteSpace == {" ", "\t", "\n", "\r"}
SegmentStarts(s) == {0} \cup { i \in 1..Len(s) : s[i] = "," }
SegmentEnd(s, p) ==
    CHOOSE q \in (p + 1)..(Len(s) + 1) :
        /\ q = Len(s) + 1 \/ s[q] = ","
        /\ \A j \in (p + 1)..(q - 1) : s[j] # ","
Visible(s, p) == { i \in (p + 1)..(SegmentEnd(s, p) - 1) : s[i] \notin WhiteSpace }
Kept(s) == { p \in SegmentStarts(s) : Visible(s, p) # {} }
Least(S) == CHOOSE x \in S : \A y \in S : x <= y
Greatest(S) == CHOOSE x \in S : \A y \in S : x >= y
KthKept(s, k) == CHOOSE p \in Kept(s) : Cardinality({ q \in Kept(s) : q <= p }) = k

AtX == <<"a", "@", "x", ".", "c", "o", "m">>
BtX == <<"b", "@", "x", ".", "c", "o", "m">>

\* C7: for a non-blank input the result holds, in order and with duplicates,
\* exactly the comma-separated segments that are non-empty after trimming,
\* each trimmed; "a@x.com, ,b@x.com" gives ["a@x.com", "b@x.com"].
C7_ParseSegments ==
    (parse_pc = "done" /\ value # None
        /\ \E i \in 1..Len(value[1]) : value[1][i] \notin WhiteSpace) =>
        LET s == value[1]
        IN  /\ items # None
            /\ Len(items[1]) = Cardinality(Kept(s))
            /\ \A k \in 1..Len(items[1]) :
                  LET p == KthKept(s, k)
                      item == items[1][k]
                  IN  /\ item = SubSeq(s, Least(Visible(s, p)), Greatest(Visible(s, p)))
                      /\ item # <<>>
                      /\ item[1] \notin WhiteSpace
                      /\ item[Len(item)] \notin WhiteSpace
            /\ s = ExampleInput => items = Some(<<AtX, BtX>>)

\* C7 witness: the documented example has been parsed.
C7_Witness ==
    /\ parse_pc = "done"
    /\ value = Some(ExampleInput)
    /\ items = Some(<<AtX, BtX>>)

\* C8: for a header "Bearer " followed by t, get_access_token returns exactly
\* t: the header without its first seven characters.
C8_TokenIsHeaderRest ==
    (token_pc = "done" /\ ~Unauthenticated(token_ctx)) =>
        /\ token_result.kind = "returned"
        /\ token_result.value =
               SubSeq(token_ctx.Authorization[1], 8, Len(token_ctx.Authorization[1]))

Re == <<"R", "e", ":">>
ReSpace == <<"R", "e", ":", " ">>
HasPrefix(s, prefix) == Len(s) >= Len(prefix) /\ \A i \in 1..Len(prefix) : s[i] = prefix[i]

\* the reply request handed to send_message, once the reply has been built
ReplyBuilt == handler = "gmail_reply_to_email" /\ Len(calls) = 2
ReplyRequest == calls[2].args[1]
OriginalSubject ==
    IF locals.original_message.subject = None THEN <<>>
    ELSE locals.original_message.subject[1]

\* C9 as stated: the reply subject is s when s begins with "Re: " and
\* "Re: " followed by s otherwise, so it always begins with "Re: ".
C9_ReplySubject ==
    ReplyBuilt =>
        /\ ReplyRequest.subject =
               IF HasPrefix(OriginalSubject, ReSpace) THEN OriginalSubject
               ELSE ReSpace \o OriginalSubject
        /\ HasPrefix(ReplyRequest.subject, ReSpace)

\* C9 amended: the reply subject is s when s begins with "Re:" (with or
\* without a space after it) and "Re: " followed by s otherwise; "Hello"
\* becomes "Re: Hello", "Re: Hello" stays, and the reply subject always
\* begins with "Re:".
C9_ReplySubjectRe ==
    ReplyBuilt =>
        /\ ReplyRequest.subject =
               IF HasPrefix(OriginalSubject, Re) THEN OriginalSubject
               ELSE ReSpace \o OriginalSubject
        /\ HasPrefix(ReplyRequest.subject, Re)
        /\ OriginalSubject = Hello => ReplyRequest.subject = ReSpace \o Hello
        /\ OriginalSubject = ReSpace \o Hello => ReplyRequest.subject = ReSpace \o Hello

\* C9 witness: a reply to "Re:Hello" keeps the subject as it is.
C9_Witness ==
    /\ ReplyBuilt
    /\ OriginalSubject = Re \o Hello
    /\ ReplyRequest.subject = Re \o Hello

MoveRequest == calls[1].args[2]

\* C11: gmail_move_to_folder adds exactly the target label and removes INBOX
\* exactly when remove_inbox is set and the target is not INBOX, so no label
\* is both added and removed by one request.
C11_MoveToFolderLabels ==
    (handler = "gmail_move_to_folder" /\ calls # <<>>) =>
        /\ Len(calls) = 1
        /\ calls[1].method = "modify_message_labels"
        /\ calls[1].args[1] = args.message_id
        /\ MoveRequest.add_label_ids = Some(<<args.folder_label_id>>)
        /\ MoveRequest.remove_label_ids =
               IF args.remove_inbox /\ args.folder_label_id # "INBOX"
               THEN Some(<<"INBOX">>) ELSE None
        /\ \A i \in 1..Len(MoveRequest.add_label_ids[1]) :
               \/ MoveRequest.remove_label_ids = None
               \/ \A j \in 1..Len(MoveRequest.remove_label_ids[1]) :
                      MoveRequest.add_label_ids[1][i] # MoveRequest.remove_label_ids[1][j]

\* C11 witness: a move to INBOX with remove_inbox set went out without a
\* removal.
C11_Witness ==
    /\ handler = "gmail_move_to_folder"
    /\ pc = "done"
    /\ args.folder_label_id = "INBOX" /\ args.remove_inbox
    /\ Len(calls) = 1 /\ calls[1].result = "returned"
    /\ MoveRequest.add_label_ids = Some(<<"INBOX">>)
    /\ MoveRequest.remove_label_ids = None

\* an attachment id was supplied: it is neither absent nor empty
IdSupplied == args.attachment_id # None /\ args.attachment_id # Some("")

\* C12: with an attachment id gmail_get_attachments calls get_attachment
\* once and never get_message, and returns a success envelope with that one
\* `attachment`; without one (absent or "") it calls get_message once and
\* never get_attachment, and returns all attachments of the message with
\* `count` equal to their number.
C12_AttachmentsBranch ==
    handler = "gmail_get_attachments" =>
        /\ Len(calls) <= 1
        /\ pc # "idle" /\ ~Unauthenticated(ctx) => Len(calls) = 1
        /\ calls # <<>> =>
               /\ calls[1].method = IF IdSupplied THEN "get_attachment" ELSE "get_message"
               /\ calls[1].args = IF IdSupplied
                                  THEN <<args.message_id, args.attachment_id[1]>>
                                  ELSE <<args.message_id>>
        /\ (pc = "done" /\ calls # <<>> /\ calls[1].result = "returned") =>
               /\ outcome.kind = "returned"
               /\ outcome.value.success = TRUE
               /\ IF IdSupplied
                  THEN /\ "attachments" \notin DOMAIN outcome.value
                       /\ outcome.value.attachment = calls[1].response
                  ELSE /\ "attachment" \notin DOMAIN outcome.value
                       /\ outcome.value.attachments = calls[1].response.attachments
                       /\ outcome.value.count = Len(calls[1].response.attachments)
                       /\ outcome.value.message_id = args.message_id

\* C12 witness: an empty attachment id listed the two attachments of the
\* message.
C12_Witness ==
    /\ handler = "gmail_get_attachments"
    /\ pc = "done"
    /\ args.attachment_id = Some("")
    /\ Len(calls) = 1 /\ calls[1].method = "get_message"
    /\ outcome.kind = "returned"
    /\ outcome.value.count = 2
    /\ Len(outcome.value.attachments) = 2

\* C13: when delete_message returns false, gmail_delete_email returns
\* {success: false, message_id, message: "Failed to delete email"} without an
\* `error` field; when it returns true, success is true; an `error` field
\* appears only when delete_message raises.
C13_DeleteResult ==
    (handler = "gmail_delete_email" /\ pc = "done" /\ calls # <<>>) =>
        /\ outcome.kind = "returned"
        /\ calls[1].result = "returned" =>
               /\ "error" \notin DOMAIN outcome.value
               /\ outcome.value.success = calls[1].response
               /\ outcome.value.message_id = args.message_id
               /\ calls[1].response = FALSE =>
                      outcome.value = [success |-> FALSE, message_id |-> args.message_id,
                                       message |-> "Failed to delete email"]
        /\ "error" \in DOMAIN outcome.value <=> calls[1].result = "raised"

\* C13 witness: delete_message returned false and the handler returned the
\* failure message.
C13_Witness ==
    /\ handler = "gmail_delete_email"
    /\ pc = "done"
    /\ Len(calls) = 1 /\ calls[1].result = "returned" /\ calls[1].response = FALSE
    /\ outcome.kind = "returned"
    /\ outcome.value.success = FALSE
    /\ outcome.value.message = "Failed to delete email"

\* the request fails the body check of a handler that has one
ValidationFailure ==
    /\ handler \in BodyHandlers
    /\ ~Unauthenticated(ctx)
    /\ BodyMissing(args.body_text) /\ BodyMissing(args.body_html)

\* the response shows the failure: a raised fault or a payload with `error`
Reflected == outcome.kind = "raised" \/ ReturnedWith("error")

\* C14 as stated: every failure outcome (unauthorized request, body
\* validation failure, upstream failure) is logged as an error before the
\* handler finishes and is reflected in the response.
C14_FailuresLogged ==
    (pc = "done" /\ (Unauthenticated(ctx) \/ ValidationFailure \/ CallRaised)) =>
        /\ logs # <<>>
        /\ Reflected

\* C14 amended: every such failure is reflected in the response; an upstream
\* failure (an exception caught in the handler's try block) is also logged,
\* once, before the handler finishes; an unauthorized request and a body
\* validation failure end without a log event.  Nothing is logged before the
\* handler finishes.
C14_FailuresReflected ==
    /\ pc # "done" => logs = <<>>
    /\ pc = "done" =>
          /\ (Unauthenticated(ctx) \/ ValidationFailure \/ CallRaised) => Reflected
          /\ CallRaised => Len(logs) = 1
          /\ (Unauthenticated(ctx) \/ ValidationFailure) => logs = <<>>
          /\ logs # <<>> => Reflected

\* C14 witness: an upstream failure of a handler was logged and returned.
C14_Witness ==
    /\ pc = "done"
    /\ handler = "gmail_create_draft"
    /\ CallRaised
    /\ Len(logs) = 1
    /\ ReturnedWith("error")

\* C16: once a GmailService call has raised, the invocation makes no further
\* call and ends with one error outcome; a reply whose get_message failed
\* never calls send_message.
C16_NoCallAfterFailure ==
    \A i \in 1..Len(calls) :
        calls[i].result = "raised" =>
            /\ i = Len(calls)
            /\ pc = "done"
            /\ Reflected
            /\ Len(logs) = 1
            /\ (handler = "gmail_reply_to_email" /\ calls[i].method = "get_message") =>
                   \A j \in 1..Len(calls) : calls[j].method # "send_message"

\* C16 witness: a reply whose get_message raised ended with an error and one
\* call.
C16_Witness ==
    /\ handler = "gmail_reply_to_email"
    /\ pc = "done"
    /\ Len(calls) = 1
    /\ calls[1].method = "get_message" /\ calls[1].result = "raised"
    /\ ReturnedWith("error")

\* C17: parse_comma_separated_list never returns an empty sequence: an input
\* that is absent, blank or without any segment that is non-empty after
\* trimming gives None, every other input at least one element.
C17_NeverEmptyList ==
    parse_pc = "done" =>
        /\ items # Some(<<>>)
        /\ IF value = None \/ Kept(value[1]) = {}
           THEN items = None
           ELSE items # None /\ Len(items[1]) >= 1

\* the frame of invocation i, running or suspended
FrameOf(i) == IF i = cur THEN LiveFrame ELSE frames[i]

\* the token of a frame's own request: its header after "Bearer "
OwnToken(f) == SubSeq(f.ctx.Authorization[1], 8, Len(f.ctx.Authorization[1]))

\* C15: under every interleaving of the invocations at their awaits, each
\* invocation holds and calls only the client built from the token of its
\* own request, and two invocations with the same handler, request and
\* parameters whose service calls were answered alike are in the same state
\* with the same result.
C15_InvocationsIndependent ==
    /\ \A i \in Invocations :
          LET f == FrameOf(i)
          IN  /\ f.gmail_service # None =>
                     /\ ~Unauthenticated(f.ctx)
                     /\ f.gmail_service[1].token_info.access_token = OwnToken(f)
              /\ \A k \in 1..Len(f.calls) :
                     /\ ~Unauthenticated(f.ctx)
                     /\ f.calls[k].client.token_info.access_token = OwnToken(f)
    /\ \A i, j \in Invocations :
          LET f == FrameOf(i)
              g == FrameOf(j)
          IN  (f.handler = g.handler /\ f.ctx = g.ctx /\ f.args = g.args
                  /\ f.calls = g.calls) =>
                  /\ f.pc = g.pc
                  /\ f.outcome = g.outcome
                  /\ f.logs = g.logs

\* C15 witness: invocation 1, with token x, started its reply first, was
\* suspended at both of its calls while invocation 2, with token y, ran, and
\* finished after it with both calls made on the client of token x.
C15_Witness ==
    /\ cur = 1
    /\ pc = "done" /\ handler = "gmail_reply_to_email"
    /\ Len(calls) = 2
    /\ calls[1].client.token_info.access_token = <<"x">>
    /\ calls[2].client.token_info.access_token = <<"x">>
    /\ outcome.kind = "returned" /\ outcome.value.success = TRUE
    /\ frames[2].pc = "done"
    /\ frames[2].handler = "gmail_reply_to_email"
    /\ Len(frames[2].calls) = 2
    /\ frames[2].calls[2].client.token_info.access_token = <<"y">>
    /\ frames[2].outcome.value.reply_message_id # outcome.value.reply_message_id

====
